---- MODULE Spec2Model ----
(***************************************************************************)
(* Model of the entity synchronisation decoder of amethyst's `net` crate:  *)
(*   src/src/net/sync/seq.rs   SyncSeq                                     *)
(*   src/src/net/stat.rs       NetStat                                     *)
(*   src/src/net/error.rs      ErrorKind                                   *)
(*   src/src/net/sync/de.rs    BasicComponentsDeserializer and the serde   *)
(*                             visitors that drive it                      *)
(*                                                                         *)
(* The world is the identity map `ids`, the set of live entities, the      *)
(* NetStat storage and the storage of the COUNT synchronised components.   *)
(* A decode of one message is stepped through the loop of                  *)
(* DeserializeEntities::visit_seq: one step reads and visits one entity    *)
(* record, the next step matches its result.                               *)
(***************************************************************************)
EXTENDS Integers, Sequences, FiniteSets, TLC

VARIABLES
    ids,         \* BasicComponentsDeserializer.ids : NetId -> Entity (NoEntity = vacant)
    alive,       \* Entities: the live entity handles
    stats,       \* WriteStorage<NetStat> : Entity -> NetStat (NoStat = none)
    data,        \* SystemData: Entity -> the COUNT component storages (NoComp = none)
    nextEntity,  \* the handle the next entities.create() returns
    pc,          \* position of the decode: "idle", "next" (loop head), "match"
    more,        \* whether the entity sequence holds another element
    aligned,     \* whether the stream position is on a record boundary
    rec,         \* the entity record visited last
    res,         \* the value the visit of `rec` produced
    result,      \* what the last finished decode returned to its caller
    uself,       \* unit harness: receiver of NetStat::update / SyncSeq::update
    unew,        \* unit harness: argument
    uout,        \* unit harness: outcome of the call
    msg,         \* the entity sequence of the message a caller decodes repeatedly
    pos,         \* index in msg of the element the loop head reads next
    runs,        \* how many decodes of msg were started
    snap,        \* the world and the returned value when the second decode of msg starts
    source,      \* the world of the sending peer that msg was encoded from
    resSeq,      \* the SyncSeq shared by the group of synchronised resources
    resources,   \* the global resource instances R1..Rn (NoComp = not initialised)
    rblock,      \* the resource block decoded last
    watch,       \* a Stopwatch
    now,         \* the clock Instant::now() reads
    spent,       \* clock time `watch` was Started since new(), reset() or restart()
    called,      \* the Stopwatch method called last
    sink,        \* AudioSink: the sources queued for playing
    storage,     \* AssetStorage<Source>: the handles that resolve to a source
    picks,       \* how often the music picker of the DjSystem was called
    picked,      \* what the picker returned in the last run of the DjSystem
    djruns       \* how often DjSystem::run ran

world == <<ids, alive, stats, data, nextEntity>>
decode == <<pc, more, aligned, rec, res, result>>
unit == <<uself, unew, uout>>
msgv == <<msg, pos, runs, snap, source>>
resv == <<resSeq, resources, rblock>>
timing == <<watch, now, spent, called>>
dj == <<sink, storage, picks, picked, djruns>>
vars == <<ids, alive, stats, data, nextEntity, pc, more, aligned, rec, res, result,
          uself, unew, uout, msg, pos, runs, snap, source, resSeq, resources, rblock,
          watch, now, spent, called, sink, storage, picks, picked, djruns>>

----------------------------------------------------------------------------
(* Bounds of the model *)

MaxSeq == 2
MaxEntities == 3
SeqBits == 3
MaxMsgLen == 2
MaxClock == 6
MaxDjRuns == 5

(* impl_deserializers!(01;Z): one synchronised component type *)
COUNT == 1

(* the NetIds on the wire: the entity a record names and a bystander; an owner *)
(* is a NetId too                                                              *)
NetIds == {1, 2}
Seqs == 0..MaxSeq
(* two distinct payloads of a component: enough to tell insert, replace, remove *)
Vals == {1, 2}
Handles == 1..MaxEntities

NoEntity == 0
NoComp == 0
None == <<>>
Some(v) == <<v>>
Options == {None} \cup {Some(v) : v \in Vals}

(* the largest value of the scaled-down unsigned sequence type *)
U64Max == 2^SeqBits - 1
USeqs == 0..U64Max

----------------------------------------------------------------------------
(* seq.rs *)

SyncSeqNew == 0

SyncSeqUpdateAdopt(self, rhs) ==
    IF self > rhs THEN [ret |-> FALSE, self |-> self]
                  ELSE [ret |-> TRUE, self |-> rhs]

SyncSeqUpdateAlways(self, rhs) ==
    IF self >= rhs THEN [ret |-> FALSE, self |-> rhs]
                   ELSE [ret |-> TRUE, self |-> rhs]

SyncSeqUpdateNe(self, rhs) ==
    IF self = rhs THEN [ret |-> FALSE, self |-> self]
                  ELSE [ret |-> TRUE, self |-> rhs]

SyncSeqUpdateNoGate(self, rhs) == [ret |-> TRUE, self |-> rhs]

(* SyncSeq::update: the returned flag and the value `self` holds afterwards *)
SyncSeqUpdate(self, rhs) ==
    IF self >= rhs THEN [ret |-> FALSE, self |-> self]
                   ELSE [ret |-> TRUE, self |-> rhs]

----------------------------------------------------------------------------
(* stat.rs, error.rs *)

NetStat(id, owner, seq) == [id |-> id, owner |-> owner, sync_seq |-> seq]
NoStat == NetStat(0, 0, 0)
NetStats == {NetStat(i, o, s) : i \in NetIds, o \in NetIds, s \in Seqs}

NetStatNew(id, owner) == NetStat(id, owner, SyncSeqNew)

Res(tag, updater, id, owner) ==
    [tag |-> tag, updater |-> updater, id |-> id, owner |-> owner]
NoRes == Res("None", 0, 0, 0)
OkUnit == Res("Ok", 0, 0, 0)
DecodeError == Res("DecodeError", 0, 0, 0)
Panic == Res("Panic", 0, 0, 0)
SyncWrongOwner(updater, id, owner) == Res("SyncWrongOwner", updater, id, owner)
BrokenEntity(entity) == Res("BrokenEntity", 0, entity, 0)

NetStatUpdateTakeOver(self, new) ==
    LET u == SyncSeqUpdate(self.sync_seq, new.sync_seq) IN
    [tag |-> "Ok", ret |-> u.ret, err |-> NoRes,
     self |-> [self EXCEPT !.sync_seq = u.self, !.owner = new.owner]]

NetStatUpdateSeqFirst(self, new) ==
    LET u == SyncSeqUpdate(self.sync_seq, new.sync_seq) IN
    IF new.owner = self.owner
    THEN [tag |-> "Ok", ret |-> u.ret, err |-> NoRes,
          self |-> [self EXCEPT !.sync_seq = u.self]]
    ELSE [tag |-> "Err", ret |-> FALSE,
          err |-> SyncWrongOwner(new.owner, new.id, self.owner),
          self |-> [self EXCEPT !.sync_seq = u.self]]

NetStatUpdateSwapped(self, new) ==
    IF new.owner = self.owner
    THEN LET u == SyncSeqUpdate(self.sync_seq, new.sync_seq) IN
         [tag |-> "Ok", ret |-> u.ret, err |-> NoRes,
          self |-> [self EXCEPT !.sync_seq = u.self]]
    ELSE [tag |-> "Err", ret |-> FALSE,
          err |-> SyncWrongOwner(self.owner, new.id, new.owner),
          self |-> self]

(* NetStat::update: Ok(ret) or Err(err), and the NetStat `self` holds afterwards *)
NetStatUpdate(self, new) ==
    IF new.owner = self.owner
    THEN LET u == SyncSeqUpdate(self.sync_seq, new.sync_seq) IN
         [tag |-> "Ok", ret |-> u.ret, err |-> NoRes,
          self |-> [self EXCEPT !.sync_seq = u.self]]
    ELSE [tag |-> "Err", ret |-> FALSE,
          err |-> SyncWrongOwner(new.owner, new.id, self.owner),
          self |-> self]

----------------------------------------------------------------------------
(* de.rs: the world the decoder works on *)

Slots == 1..COUNT
NoComps == [i \in Slots |-> NoComp]

World == [ids |-> ids, alive |-> alive, stats |-> stats, data |-> data,
          next |-> nextEntity]

(* an entity record of the wire: a tuple struct "Entity" of `n` elements, the   *)
(* first a NetStat, the second the enum Update(slots) | Remove                  *)
Rec(n, stat, variant, slots) ==
    [n |-> n, stat |-> stat, variant |-> variant, slots |-> slots]
NoRec == Rec(0, NoStat, "None", <<>>)
EmptyRec == Rec(0, NoStat, "Missing", <<>>)
SlotSeqs == UNION {[1..m -> Options] : m \in 0..COUNT}
Records ==
    {EmptyRec}
    \cup {Rec(1, s, "Missing", <<>>) : s \in NetStats}
    \cup {Rec(2, s, "Remove", <<>>) : s \in NetStats}
    \cup {Rec(2, s, "Update", sl) : s \in NetStats, sl \in SlotSeqs}

(* what a visit returns: the world it leaves, its value, and how many of the    *)
(* record's component slots it consumed from the stream                         *)
Out(w, r, used) == [w |-> w, r |-> r, used |-> used]

(* entities.delete(entity): the handle dies and the storages drop its components *)
Delete(w, e) ==
    [w EXCEPT !.alive = @ \ {e}, !.stats[e] = NoStat, !.data[e] = NoComps]

remove_entity_must_exist(w, stat) ==
    LET e == w.ids[stat.id] IN
    IF e # NoEntity
    THEN Out(Delete([w EXCEPT !.ids[stat.id] = NoEntity], e), OkUnit, 0)
    ELSE Out(w, DecodeError, 0)

remove_entity_keep_id(w, stat) ==
    LET e == w.ids[stat.id] IN
    IF e # NoEntity THEN Out(Delete(w, e), OkUnit, 0)
                    ELSE Out(w, OkUnit, 0)

remove_entity_all(w, stat) ==
    LET e == w.ids[stat.id] IN
    IF e # NoEntity
    THEN Out([w EXCEPT !.ids = [k \in NetIds |-> NoEntity], !.alive = {},
                       !.stats = [h \in Handles |-> NoStat],
                       !.data = [h \in Handles |-> NoComps]], OkUnit, 0)
    ELSE Out(w, OkUnit, 0)

(* remove_entity: an occupied entry is removed from `ids` and its entity deleted *)
remove_entity(w, stat) ==
    LET e == w.ids[stat.id] IN
    IF e # NoEntity
    THEN Out(Delete([w EXCEPT !.ids[stat.id] = NoEntity], e), OkUnit, 0)
    ELSE Out(w, OkUnit, 0)

StoreSlotSwapped(old, slot) == IF slot = None THEN old ELSE NoComp

StoreSlotKeep(old, slot) == IF slot # None THEN slot[1] ELSE old

(* $a.insert(entity, component) for Some(component), $a.remove(entity) for None *)
StoreSlot(old, slot) == IF slot # None THEN slot[1] ELSE NoComp

(* the macro's repetition over the component types: `index` slots are done *)
RECURSIVE Components(_, _, _, _)
Components(w, e, slots, index) ==
    IF index = COUNT THEN Out(w, OkUnit, index)
    ELSE IF index + 1 > Len(slots) THEN Out(w, DecodeError, index)
    ELSE Components([w EXCEPT !.data[e][index + 1] = StoreSlot(@, slots[index + 1])],
                    e, slots, index + 1)

deserialize_components_new_stat(w, stat, slots) ==
    LET e == w.ids[stat.id] IN
    IF e # NoEntity
    THEN IF w.stats[e] = NoStat
         THEN Out(w, Panic, 0)
         ELSE LET u == NetStatUpdate(w.stats[e], stat)
                  w1 == [w EXCEPT !.stats[e] = u.self]
              IN  IF u.tag = "Err" THEN Out(w1, u.err, 0)
                  ELSE IF ~u.ret THEN Out(w1, OkUnit, 0)
                  ELSE Components(w1, e, slots, 0)
    ELSE LET n == w.next
             w1 == [w EXCEPT !.ids[stat.id] = n, !.alive = @ \cup {n},
                             !.next = @ + 1,
                             !.stats[n] = NetStatNew(stat.id, stat.owner)]
         IN  Components(w1, n, slots, 0)

deserialize_components_no_stat(w, stat, slots) ==
    LET e == w.ids[stat.id] IN
    IF e # NoEntity
    THEN IF w.stats[e] = NoStat
         THEN Out(w, Panic, 0)
         ELSE LET u == NetStatUpdate(w.stats[e], stat)
                  w1 == [w EXCEPT !.stats[e] = u.self]
              IN  IF u.tag = "Err" THEN Out(w1, u.err, 0)
                  ELSE IF ~u.ret THEN Out(w1, OkUnit, 0)
                  ELSE Components(w1, e, slots, 0)
    ELSE LET n == w.next
             w1 == [w EXCEPT !.ids[stat.id] = n, !.alive = @ \cup {n},
                             !.next = @ + 1]
         IN  Components(w1, n, slots, 0)

(* deserialize_components *)
deserialize_components(w, stat, slots) ==
    LET e == w.ids[stat.id] IN
    IF e # NoEntity
    THEN IF w.stats[e] = NoStat
         THEN Out(w, Panic, 0)
         ELSE LET u == NetStatUpdate(w.stats[e], stat)
                  w1 == [w EXCEPT !.stats[e] = u.self]
              IN  IF u.tag = "Err" THEN Out(w1, u.err, 0)
                  ELSE IF ~u.ret THEN Out(w1, OkUnit, 0)
                  ELSE Components(w1, e, slots, 0)
    ELSE LET n == w.next
             w1 == [w EXCEPT !.ids[stat.id] = n, !.alive = @ \cup {n},
                             !.next = @ + 1, !.stats[n] = stat]
         IN  Components(w1, n, slots, 0)

(* DeserializeUpdateOrRemove::visit_enum *)
visit_enum(w, r) ==
    IF r.variant = "Update" THEN deserialize_components(w, r.stat, r.slots)
                            ELSE remove_entity(w, r.stat)

(* DeserializeEntity::visit_seq: a missing NetStat or a missing second element *)
(* is an invalid_length error                                                  *)
DeserializeEntity(w, r) ==
    IF r.n < 2 THEN Out(w, DecodeError, 0)
               ELSE visit_enum(w, r)

(* whether visiting r calls entities.create() *)
Creates(w, r) == r.n = 2 /\ r.variant = "Update" /\ w.ids[r.stat.id] = NoEntity

----------------------------------------------------------------------------
(* seq.rs, stat.rs: the two update methods called on their own *)

UStats == {NetStat(i, o, s) : i \in NetIds, o \in NetIds, s \in USeqs}
CallOut(fn, tag, ret, err, self) ==
    [fn |-> fn, tag |-> tag, ret |-> ret, err |-> err, self |-> self]
NoOut == CallOut("none", "None", FALSE, NoRes, NoStat)

(* what a caller that decodes a message again remembers of the decode before *)
Snap(w, r) == [w |-> w, r |-> r]
NoSnap == Snap(<<>>, NoRes)

(* the sending peer: its world, its shared resource SyncSeq and its resources *)
Source(w, seq, rs) == [w |-> w, seq |-> seq, rs |-> rs]
NoSource == Source(<<>>, 0, <<>>)

----------------------------------------------------------------------------
(* The resource codec: a block (SyncSeq, Option<R1>, ..., Option<Rn>) gated by *)
(* one shared SyncSeq. Its decoder is not among the sources; it is written     *)
(* here as the specification describes it, on top of SyncSeq::update.          *)

(* the number n of synchronised resource types *)
RCOUNT == 2
RSlots == 1..RCOUNT
NoResources == [i \in RSlots |-> NoComp]
Block(seq, slots) == [seq |-> seq, slots |-> slots]
NoBlock == Block(0, <<>>)
Blocks == {Block(s, sl) : s \in Seqs, sl \in [RSlots -> Options]}

(* the encoder of the world is a stub among the sources (ser.rs); it is written *)
(* here as the specification describes it: the resource block, then one Update *)
(* record per tracked entity, in the order of the entity handles               *)
ToOption(c) == IF c = NoComp THEN None ELSE Some(c)
serialize_resources(seq, rs) == Block(seq, [i \in RSlots |-> ToOption(rs[i])])
serialize_entity(w, e) ==
    Rec(2, w.stats[e], "Update", [i \in 1..COUNT |-> ToOption(w.data[e][i])])

RECURSIVE serialize_entities(_, _)
serialize_entities(w, e) ==
    IF e > MaxEntities THEN <<>>
    ELSE (IF e \in w.alive /\ w.stats[e] # NoStat THEN <<serialize_entity(w, e)>> ELSE <<>>)
         \o serialize_entities(w, e + 1)

(* the worlds of a sending peer: each NetId names no entity or one entity of   *)
(* its own, with a NetStat of that id and any components; resources are set    *)
(* only once the shared SyncSeq has advanced                                   *)
SourceIds ==
    {f \in [NetIds -> {NoEntity} \cup (1..Cardinality(NetIds))] :
       \A k1, k2 \in NetIds : (f[k1] # NoEntity /\ f[k1] = f[k2]) => k1 = k2}
SourceWorlds ==
    {[ids |-> f,
      alive |-> {f[k] : k \in {j \in NetIds : f[j] # NoEntity}},
      stats |-> [e \in Handles |->
                   IF \E k \in NetIds : f[k] = e
                   THEN NetStat(CHOOSE k \in NetIds : f[k] = e, own[e], sq[e])
                   ELSE NoStat],
      data |-> [e \in Handles |-> IF \E k \in NetIds : f[k] = e THEN d[e] ELSE NoComps],
      next |-> 1 + Cardinality({k \in NetIds : f[k] # NoEntity})] :
       f \in SourceIds,
       own \in [1..Cardinality(NetIds) -> NetIds],
       sq \in [1..Cardinality(NetIds) -> Seqs],
       d \in [1..Cardinality(NetIds) -> [Slots -> Vals \cup {NoComp}]]}
Sources ==
    {x \in {Source(w, s, rs) : w \in SourceWorlds, s \in Seqs,
                               rs \in [RSlots -> Vals \cup {NoComp}]} :
       x.seq = SyncSeqNew => x.rs = NoResources}

(* Some(v) replaces the instance of Ri, None changes nothing *)
StoreResource(old, slot) == IF slot # None THEN slot[1] ELSE old

(* the decode of a resource block: the shared sequence and the resources after it *)
deserialize_resources(seq, rs, b) ==
    LET u == SyncSeqUpdate(seq, b.seq) IN
    IF ~u.ret THEN [seq |-> u.self, rs |-> rs]
    ELSE [seq |-> u.self, rs |-> [i \in RSlots |-> StoreResource(rs[i], b.slots[i])]]

----------------------------------------------------------------------------
(* timing.rs: Stopwatch *)

Waiting == [state |-> "Waiting", dur |-> 0, at |-> 0]
Started(dur, at) == [state |-> "Started", dur |-> dur, at |-> at]
Ended(dur) == [state |-> "Ended", dur |-> dur, at |-> 0]

(* Instant::elapsed of the instant `at`, read when the clock shows t *)
InstantElapsed(at, t) == t - at

(* Stopwatch::elapsed *)
elapsed(w, t) ==
    CASE w.state = "Waiting" -> 0
      [] w.state = "Started" -> w.dur + InstantElapsed(w.at, t)
      [] w.state = "Ended" -> w.dur

restart_keep(w, t) == Started(w.dur, t)

(* Stopwatch::restart *)
restart(w, t) == Started(0, t)

start_anew(w, t) ==
    CASE w.state = "Waiting" -> restart(w, t)
      [] w.state = "Ended" -> Started(w.dur, t)
      [] OTHER -> Started(w.dur, t)

(* Stopwatch::start *)
start(w, t) ==
    CASE w.state = "Waiting" -> restart(w, t)
      [] w.state = "Ended" -> Started(w.dur, t)
      [] OTHER -> w

stop_last_cycle(w, t) ==
    IF w.state = "Started" THEN Ended(InstantElapsed(w.at, t)) ELSE w

(* Stopwatch::stop *)
stop(w, t) ==
    IF w.state = "Started" THEN Ended(w.dur + InstantElapsed(w.at, t)) ELSE w

(* Stopwatch::reset *)
reset(w) == Waiting

----------------------------------------------------------------------------
(* dj.rs: DjSystem *)

SourceHandles == {1, 2}
(* the picker was not called in this run *)
NotCalled == <<0, 0>>

run_unchecked(q, store, pick, ok) ==
    IF pick # None /\ pick[1] \in store /\ ok
    THEN [sink |-> Append(q, pick[1]), called |-> TRUE, picked |-> pick]
    ELSE [sink |-> q, called |-> TRUE, picked |-> pick]

(* DjSystem::run on the sink queue q and the asset storage `store`: `pick` is  *)
(* what the picker returns if it is called, `ok` whether sink.append succeeds  *)
run(q, store, pick, ok) ==
    IF q = <<>>
    THEN IF pick # None /\ pick[1] \in store /\ ok
         THEN [sink |-> Append(q, pick[1]), called |-> TRUE, picked |-> pick]
         ELSE [sink |-> q, called |-> TRUE, picked |-> pick]
    ELSE [sink |-> q, called |-> FALSE, picked |-> NotCalled]

----------------------------------------------------------------------------
(* de.rs: the decode of one message *)

Init ==
    /\ ids = [k \in NetIds |-> NoEntity]
    /\ alive = {}
    /\ stats = [e \in Handles |-> NoStat]
    /\ data = [e \in Handles |-> NoComps]
    /\ nextEntity = 1
    /\ pc = "idle"
    /\ more = FALSE
    /\ aligned = TRUE
    /\ rec = NoRec
    /\ res = NoRes
    /\ result = NoRes
    /\ uself = NoStat
    /\ unew = NoStat
    /\ uout = NoOut
    /\ msg = <<>>
    /\ pos = 0
    /\ runs = 0
    /\ snap = NoSnap
    /\ source = NoSource
    /\ resSeq = SyncSeqNew
    /\ resources = NoResources
    /\ rblock = NoBlock
    /\ watch = Waiting
    /\ now = 0
    /\ spent = 0
    /\ called = "none"
    /\ sink = <<>>
    /\ storage = {}
    /\ picks = 0
    /\ picked = NotCalled
    /\ djruns = 0

(* DeserializeEntities::deserialize: the caller hands a message to the decoder *)
Begin ==
    /\ pc = "idle"
    /\ pc' = "next"
    /\ more' \in BOOLEAN
    /\ aligned' = TRUE
    /\ rec' = NoRec
    /\ res' = NoRes
    /\ result' = NoRes
    /\ UNCHANGED <<world, unit, dj, msgv, resv, timing>>

(* the loop head finds another element and DeserializeEntity visits it *)
VisitEntity ==
    /\ pc = "next"
    /\ more
    /\ \E r \in Records :
         /\ Creates(World, r) => nextEntity <= MaxEntities
         /\ LET o == DeserializeEntity(World, r) IN
            /\ ids' = o.w.ids
            /\ alive' = o.w.alive
            /\ stats' = o.w.stats
            /\ data' = o.w.data
            /\ nextEntity' = o.w.next
            /\ rec' = r
            /\ res' = o.r
            /\ aligned' = (aligned /\ o.used = Len(r.slots))
    /\ more' \in BOOLEAN
    /\ pc' = "match"
    /\ UNCHANGED <<result, unit, dj, msgv, resv, timing>>

(* `match res { Ok(()) => {} }`: back to the loop head *)
MatchOk ==
    /\ pc = "match"
    /\ res.tag = "Ok"
    /\ pc' = "next"
    /\ rec' = NoRec
    /\ res' = NoRes
    /\ UNCHANGED <<world, more, aligned, result, unit, dj, msgv, resv, timing>>

(* `Err(err) => return Ok(Err(err))` *)
MatchErr ==
    /\ pc = "match"
    /\ res.tag = "SyncWrongOwner"
    /\ pc' = "idle"
    /\ result' = res
    /\ rec' = NoRec
    /\ res' = NoRes
    /\ UNCHANGED <<world, more, aligned, unit, dj, msgv, resv, timing>>

PropagateContinue ==
    /\ pc = "match"
    /\ res.tag \in {"DecodeError", "Panic"}
    /\ pc' = "next"
    /\ rec' = NoRec
    /\ res' = NoRes
    /\ UNCHANGED <<world, more, aligned, result, unit, dj, msgv, resv, timing>>

(* the `?` after next_element_seed: a decode error of the record ends the decode *)
Propagate ==
    /\ pc = "match"
    /\ res.tag \in {"DecodeError", "Panic"}
    /\ pc' = "idle"
    /\ result' = res
    /\ rec' = NoRec
    /\ res' = NoRes
    /\ UNCHANGED <<world, more, aligned, unit, dj, msgv, resv, timing>>

(* the loop head finds the end of the sequence: Ok(Ok(())) *)
EndOfSeq ==
    /\ pc = "next"
    /\ ~more
    /\ pc' = "idle"
    /\ result' = OkUnit
    /\ UNCHANGED <<world, more, aligned, rec, res, unit, dj, msgv, resv, timing>>

(* the loop head reads from inside a record the visitor left unread: the format *)
(* reports a decode error                                                       *)
Misaligned ==
    /\ pc = "next"
    /\ ~aligned
    /\ pc' = "idle"
    /\ result' = DecodeError
    /\ UNCHANGED <<world, more, aligned, rec, res, unit, dj, msgv, resv, timing>>

Next == Begin \/ VisitEntity \/ MatchOk \/ MatchErr \/ Propagate \/ EndOfSeq \/ Misaligned

Spec == Init /\ [][Next]_vars

----------------------------------------------------------------------------
(* The update methods on inputs drawn from the whole (scaled-down) value range. *)
(* NetStat::update is called with new.id = self.id, as its debug assertion asks. *)

UnitInit ==
    /\ ids = [k \in NetIds |-> NoEntity]
    /\ alive = {}
    /\ stats = [e \in Handles |-> NoStat]
    /\ data = [e \in Handles |-> NoComps]
    /\ nextEntity = 1
    /\ pc = "idle"
    /\ more = FALSE
    /\ aligned = TRUE
    /\ rec = NoRec
    /\ res = NoRes
    /\ result = NoRes
    /\ uself \in UStats
    /\ unew \in {n \in UStats : n.id = uself.id}
    /\ uout = NoOut
    /\ msg = <<>>
    /\ pos = 0
    /\ runs = 0
    /\ snap = NoSnap
    /\ source = NoSource
    /\ resSeq = SyncSeqNew
    /\ resources = NoResources
    /\ rblock = NoBlock
    /\ watch = Waiting
    /\ now = 0
    /\ spent = 0
    /\ called = "none"
    /\ sink = <<>>
    /\ storage = {}
    /\ picks = 0
    /\ picked = NotCalled
    /\ djruns = 0

(* self.sync_seq.update(new.sync_seq) *)
CallSyncSeqUpdate ==
    /\ uout = NoOut
    /\ LET u == SyncSeqUpdate(uself.sync_seq, unew.sync_seq) IN
       uout' = CallOut("SyncSeq::update", "Ok", u.ret, NoRes,
                       [uself EXCEPT !.sync_seq = u.self])
    /\ UNCHANGED <<world, decode, uself, unew, dj, msgv, resv, timing>>

(* self.update(new) *)
CallNetStatUpdate ==
    /\ uout = NoOut
    /\ LET u == NetStatUpdate(uself, unew) IN
       uout' = CallOut("NetStat::update", u.tag, u.ret, u.err, u.self)
    /\ UNCHANGED <<world, decode, uself, unew, dj, msgv, resv, timing>>

UnitNext == CallSyncSeqUpdate \/ CallNetStatUpdate

UnitSpec == UnitInit /\ [][UnitNext]_vars

----------------------------------------------------------------------------
(* A caller decodes one and the same message twice in a row (a duplicate       *)
(* delivery), starting from the world of a fresh BasicComponentsDeserializer.  *)
(* The message is an entity sequence of complete Update records, so no visit   *)
(* fails to decode; only the read after a record left unread can.              *)

MsgRecords == {r \in Records : r.n = 2 /\ r.variant = "Update" /\ Len(r.slots) = COUNT}
Messages == UNION {[1..n -> MsgRecords] : n \in 0..MaxMsgLen}

MsgInit ==
    /\ ids = [k \in NetIds |-> NoEntity]
    /\ alive = {}
    /\ stats = [e \in Handles |-> NoStat]
    /\ data = [e \in Handles |-> NoComps]
    /\ nextEntity = 1
    /\ pc = "idle"
    /\ more = FALSE
    /\ aligned = TRUE
    /\ rec = NoRec
    /\ res = NoRes
    /\ result = NoRes
    /\ uself = NoStat
    /\ unew = NoStat
    /\ uout = NoOut
    /\ msg \in Messages
    /\ pos = 0
    /\ runs = 0
    /\ snap = NoSnap
    /\ source = NoSource
    /\ resSeq = SyncSeqNew
    /\ resources = NoResources
    /\ rblock = NoBlock
    /\ watch = Waiting
    /\ now = 0
    /\ spent = 0
    /\ called = "none"
    /\ sink = <<>>
    /\ storage = {}
    /\ picks = 0
    /\ picked = NotCalled
    /\ djruns = 0

(* DeserializeEntities::deserialize on the message, the first or the second time *)
MsgBegin ==
    /\ pc = "idle"
    /\ runs < 2
    /\ pc' = "next"
    /\ pos' = 1
    /\ more' = (Len(msg) >= 1)
    /\ aligned' = TRUE
    /\ rec' = NoRec
    /\ res' = NoRes
    /\ result' = NoRes
    /\ runs' = runs + 1
    /\ snap' = IF runs = 1 THEN Snap(World, result) ELSE snap
    /\ UNCHANGED <<world, unit, dj, msg, source, resv, timing>>

(* the loop head finds the element msg[pos] and DeserializeEntity visits it *)
MsgVisit ==
    /\ pc = "next"
    /\ more
    /\ LET r == msg[pos]
           o == DeserializeEntity(World, r) IN
       /\ ids' = o.w.ids
       /\ alive' = o.w.alive
       /\ stats' = o.w.stats
       /\ data' = o.w.data
       /\ nextEntity' = o.w.next
       /\ rec' = r
       /\ res' = o.r
       /\ aligned' = (aligned /\ o.used = Len(r.slots))
    /\ pos' = pos + 1
    /\ more' = (pos + 1 <= Len(msg))
    /\ pc' = "match"
    /\ UNCHANGED <<result, unit, dj, msg, runs, snap, source, resv, timing>>

MsgNext == MsgBegin \/ MsgVisit \/ MatchOk \/ MatchErr \/ EndOfSeq \/ Misaligned

MsgSpec == MsgInit /\ [][MsgNext]_vars

----------------------------------------------------------------------------
(* Between two decodes of a message another system of the program, which has   *)
(* the same WriteStorage<NetStat>, removes the NetStat of an entity.           *)

TouchNetStat ==
    /\ pc = "idle"
    /\ \E e \in alive :
         /\ stats[e] # NoStat
         /\ stats' = [stats EXCEPT ![e] = NoStat]
    /\ UNCHANGED <<ids, alive, data, nextEntity, decode, unit, dj, msgv, resv, timing>>

BrokenNext ==
    MsgBegin \/ MsgVisit \/ MatchOk \/ MatchErr \/ Propagate \/ EndOfSeq \/ Misaligned
    \/ TouchNetStat

BrokenSpec == MsgInit /\ [][BrokenNext]_vars

----------------------------------------------------------------------------
(* Round trip: the world of a sending peer is encoded and the message is       *)
(* decoded by a receiver that starts empty.                                    *)

RtInit ==
    /\ ids = [k \in NetIds |-> NoEntity]
    /\ alive = {}
    /\ stats = [e \in Handles |-> NoStat]
    /\ data = [e \in Handles |-> NoComps]
    /\ nextEntity = 1
    /\ pc = "idle"
    /\ more = FALSE
    /\ aligned = TRUE
    /\ rec = NoRec
    /\ res = NoRes
    /\ result = NoRes
    /\ uself = NoStat
    /\ unew = NoStat
    /\ uout = NoOut
    /\ source \in Sources
    /\ msg = serialize_entities(source.w, 1)
    /\ pos = 0
    /\ runs = 0
    /\ snap = NoSnap
    /\ resSeq = SyncSeqNew
    /\ resources = NoResources
    /\ rblock = NoBlock
    /\ watch = Waiting
    /\ now = 0
    /\ spent = 0
    /\ called = "none"
    /\ sink = <<>>
    /\ storage = {}
    /\ picks = 0
    /\ picked = NotCalled
    /\ djruns = 0

(* the decode of the message: the resource block first, then the entity sequence *)
RtBegin ==
    /\ pc = "idle"
    /\ runs = 0
    /\ LET b == serialize_resources(source.seq, source.rs)
           o == deserialize_resources(resSeq, resources, b) IN
       /\ resSeq' = o.seq
       /\ resources' = o.rs
       /\ rblock' = b
    /\ pc' = "next"
    /\ pos' = 1
    /\ more' = (Len(msg) >= 1)
    /\ aligned' = TRUE
    /\ rec' = NoRec
    /\ res' = NoRes
    /\ result' = NoRes
    /\ runs' = runs + 1
    /\ UNCHANGED <<world, unit, dj, msg, snap, source, timing>>

RtNext == RtBegin \/ MsgVisit \/ MatchOk \/ EndOfSeq

RtSpec == RtInit /\ [][RtNext]_vars

----------------------------------------------------------------------------
(* Resource blocks of successive messages are decoded one after the other. *)

DecodeResources ==
    \E b \in Blocks :
      LET o == deserialize_resources(resSeq, resources, b) IN
      /\ resSeq' = o.seq
      /\ resources' = o.rs
      /\ rblock' = b
      /\ UNCHANGED <<world, decode, unit, dj, msgv, timing>>

ResNext == DecodeResources

ResSpec == Init /\ [][ResNext]_vars

----------------------------------------------------------------------------
(* timing.rs: a Stopwatch::new() whose methods are called in any order while   *)
(* the clock advances. `spent` is the clock time that went by while the        *)
(* stopwatch was Started, counted from new() or the last reset() or restart(). *)

Tick ==
    /\ now < MaxClock
    /\ now' = now + 1
    /\ spent' = IF watch.state = "Started" THEN spent + 1 ELSE spent
    /\ UNCHANGED <<world, decode, unit, dj, msgv, resv, watch, called>>

CallStart ==
    /\ watch' = start(watch, now)
    /\ called' = "start"
    /\ UNCHANGED <<world, decode, unit, dj, msgv, resv, now, spent>>

CallStop ==
    /\ watch' = stop(watch, now)
    /\ called' = "stop"
    /\ UNCHANGED <<world, decode, unit, dj, msgv, resv, now, spent>>

CallRestart ==
    /\ watch' = restart(watch, now)
    /\ called' = "restart"
    /\ spent' = 0
    /\ UNCHANGED <<world, decode, unit, dj, msgv, resv, now>>

CallReset ==
    /\ watch' = reset(watch)
    /\ called' = "reset"
    /\ spent' = 0
    /\ UNCHANGED <<world, decode, unit, dj, msgv, resv, now>>

WatchNext == Tick \/ CallStart \/ CallStop \/ CallRestart \/ CallReset

WatchSpec == Init /\ [][WatchNext]_vars

----------------------------------------------------------------------------
(* dj.rs: the dispatcher runs the DjSystem again and again, while the audio    *)
(* device plays the queued sources to their end and assets finish loading.     *)

DjRun ==
    /\ djruns < MaxDjRuns
    /\ \E pick \in {None} \cup {Some(h) : h \in SourceHandles}, ok \in BOOLEAN :
         LET o == run(sink, storage, pick, ok) IN
         /\ sink' = o.sink
         /\ picks' = IF o.called THEN picks + 1 ELSE picks
         /\ picked' = o.picked
    /\ djruns' = djruns + 1
    /\ UNCHANGED <<world, decode, unit, msgv, resv, timing, storage>>

(* the source at the head of the sink has been played *)
SinkPlayed ==
    /\ sink # <<>>
    /\ sink' = Tail(sink)
    /\ UNCHANGED <<world, decode, unit, msgv, resv, timing, storage, picks, picked, djruns>>

(* an asset has been loaded: its handle resolves from now on *)
AssetLoaded ==
    /\ \E h \in SourceHandles \ storage : storage' = storage \cup {h}
    /\ UNCHANGED <<world, decode, unit, msgv, resv, timing, sink, picks, picked, djruns>>

DjNext == DjRun \/ SinkPlayed \/ AssetLoaded

DjSpec == Init /\ [][DjNext]_vars

----------------------------------------------------------------------------
(* Vocabulary of the properties *)

(* the step visits an entity record: rec' is the record, res' its value *)
Visited == pc = "next" /\ pc' = "match"

IsUpdate(r) == r.n = 2 /\ r.variant = "Update"
IsRemove(r) == r.n = 2 /\ r.variant = "Remove"
WellFormed(r) == IsRemove(r) \/ (IsUpdate(r) /\ Len(r.slots) = COUNT)

(* the local entity of NetId k: its handle, whether it lives, NetStat, components *)
Ent(k) ==
    [e |-> ids[k],
     live |-> ids[k] \in alive,
     stat |-> IF ids[k] = NoEntity THEN NoStat ELSE stats[ids[k]],
     comps |-> IF ids[k] = NoEntity THEN NoComps ELSE data[ids[k]]]

(* component storage i of entity e holds exactly what slot says *)
SlotStored(e, i, slot) ==
    /\ (slot # None => data[e][i] = slot[1])
    /\ (slot = None => data[e][i] = NoComp)

----------------------------------------------------------------------------
(* C1: an Update record whose owner differs from the owner recorded for the    *)
(* existing entity of its NetId changes nothing in the world (components,      *)
(* NetStat, identity map), whatever its sync_seq, its visit yields             *)
(* SyncWrongOwner(updater, id, owner), and the decode returns that error.      *)
C1_WrongOwnerUpdateRejected ==
    [][ /\ ( /\ Visited
             /\ IsUpdate(rec')
             /\ ids[rec'.stat.id] # NoEntity
             /\ rec'.stat.owner # stats[ids[rec'.stat.id]].owner )
           => /\ UNCHANGED world
              /\ res' = SyncWrongOwner(rec'.stat.owner, rec'.stat.id,
                                       stats[ids[rec'.stat.id]].owner)
        /\ (pc = "match" /\ res.tag = "SyncWrongOwner")
           => (result' = res /\ UNCHANGED world)
      ]_vars

(* a non-owner's Update with a greater sync_seq than the recorded one was rejected *)
C1_Witness ==
    /\ pc = "match"
    /\ IsUpdate(rec)
    /\ res.tag = "SyncWrongOwner"
    /\ ids[rec.stat.id] # NoEntity
    /\ rec.stat.owner # stats[ids[rec.stat.id]].owner
    /\ rec.stat.sync_seq > stats[ids[rec.stat.id]].sync_seq
    /\ Len(rec.slots) = COUNT

(* C2: a Remove record for a mapped NetId passes the NetStat check first: from *)
(* another owner it deletes nothing and yields SyncWrongOwner, with a sync_seq *)
(* not greater than the recorded one it deletes nothing.                       *)
C2_RemoveIsGated ==
    [][ ( /\ Visited
          /\ IsRemove(rec')
          /\ ids[rec'.stat.id] # NoEntity )
        => /\ (rec'.stat.owner # stats[ids[rec'.stat.id]].owner
                 => /\ ids' = ids
                    /\ alive' = alive
                    /\ res'.tag = "SyncWrongOwner")
           /\ (rec'.stat.sync_seq <= stats[ids[rec'.stat.id]].sync_seq
                 => /\ ids' = ids
                    /\ alive' = alive)
      ]_vars

(* C3: an Update record from the recorded owner whose sync_seq lo is lower     *)
(* than the recorded one hi leaves the whole world as the hi record left it,   *)
(* and its visit yields Ok(()), which the loop takes without returning.        *)
C3_StaleUpdateIsNoOp ==
    [][ /\ ( /\ Visited
             /\ IsUpdate(rec')
             /\ ids[rec'.stat.id] # NoEntity
             /\ rec'.stat.owner = stats[ids[rec'.stat.id]].owner
             /\ rec'.stat.sync_seq < stats[ids[rec'.stat.id]].sync_seq )
           => /\ UNCHANGED world
              /\ res' = OkUnit
        /\ (pc = "match" /\ res = OkUnit)
           => (pc' = "next" /\ UNCHANGED <<world, result>>)
      ]_vars

(* a stale record that carried a different component value was visited *)
C3_Witness ==
    /\ pc = "match"
    /\ IsUpdate(rec)
    /\ res = OkUnit
    /\ ids[rec.stat.id] # NoEntity
    /\ rec.stat.owner = stats[ids[rec.stat.id]].owner
    /\ rec.stat.sync_seq < stats[ids[rec.stat.id]].sync_seq
    /\ Len(rec.slots) = COUNT
    /\ \E i \in Slots : ~SlotStored(ids[rec.stat.id], i, rec.slots[i])

(* C4: a well-formed Update record that is first for its NetId, or comes from  *)
(* the recorded owner with a greater sync_seq, leaves the entity with exactly  *)
(* the record's slots (Some(v): present with v, None: absent) and with the     *)
(* record's sync_seq; so a strictly increasing run ends in its last record.    *)
C4_AppliedUpdateEqualsSlots ==
    [][ ( /\ Visited
          /\ IsUpdate(rec')
          /\ Len(rec'.slots) = COUNT
          /\ \/ ids[rec'.stat.id] = NoEntity
             \/ /\ rec'.stat.owner = stats[ids[rec'.stat.id]].owner
                /\ rec'.stat.sync_seq > stats[ids[rec'.stat.id]].sync_seq )
        => /\ ids'[rec'.stat.id] # NoEntity
           /\ ids[rec'.stat.id] # NoEntity => ids'[rec'.stat.id] = ids[rec'.stat.id]
           /\ \A i \in Slots :
                /\ (rec'.slots[i] # None
                      => data'[ids'[rec'.stat.id]][i] = rec'.slots[i][1])
                /\ (rec'.slots[i] = None
                      => data'[ids'[rec'.stat.id]][i] = NoComp)
           /\ stats'[ids'[rec'.stat.id]].sync_seq = rec'.stat.sync_seq
           /\ stats'[ids'[rec'.stat.id]].owner = rec'.stat.owner
           /\ res' = OkUnit
      ]_vars

(* an entity created by an earlier record took a later record with a None slot *)
C4_Witness ==
    /\ pc = "match"
    /\ IsUpdate(rec)
    /\ res = OkUnit
    /\ aligned
    /\ COUNT > 0
    /\ Len(rec.slots) = COUNT
    /\ ids[rec.stat.id] # NoEntity
    /\ ids[rec.stat.id] # nextEntity - 1
    /\ rec.stat.sync_seq > 0
    /\ stats[ids[rec.stat.id]] = rec.stat
    /\ \E i \in Slots : rec.slots[i] = None /\ data[ids[rec.stat.id]][i] = NoComp

(* C5: SyncSeq::update returns true iff incoming > current; then current is    *)
(* the incoming value, otherwise current is unchanged; for every pair of the   *)
(* value range, 0 and the maximum included.                                    *)
C5_SyncSeqUpdate ==
    uout.fn = "SyncSeq::update"
    => /\ uout.ret <=> (unew.sync_seq > uself.sync_seq)
       /\ uout.ret => uout.self.sync_seq = unew.sync_seq
       /\ ~uout.ret => uout.self.sync_seq = uself.sync_seq

(* the call with both values at the maximum *)
C5_Witness ==
    /\ uout.fn = "SyncSeq::update"
    /\ uself.sync_seq = U64Max
    /\ unew.sync_seq = U64Max
    /\ ~uout.ret

(* C6: NetStat::update keeps id and owner; with another owner it returns       *)
(* SyncWrongOwner(incoming owner, self.id, self.owner) and keeps sync_seq even *)
(* when the incoming one is greater; with the same owner it returns Ok(b), b   *)
(* and the new sync_seq being those of SyncSeq::update.                        *)
C6_NetStatUpdate ==
    uout.fn = "NetStat::update"
    => /\ uout.self.id = uself.id
       /\ uout.self.owner = uself.owner
       /\ unew.owner # uself.owner
            => /\ uout.tag = "Err"
               /\ uout.err = SyncWrongOwner(unew.owner, uself.id, uself.owner)
               /\ uout.self.sync_seq = uself.sync_seq
       /\ unew.owner = uself.owner
            => /\ uout.tag = "Ok"
               /\ uout.ret = SyncSeqUpdate(uself.sync_seq, unew.sync_seq).ret
               /\ uout.self.sync_seq = SyncSeqUpdate(uself.sync_seq, unew.sync_seq).self

(* the call from another owner with a greater sync_seq *)
C6_Witness ==
    /\ uout.fn = "NetStat::update"
    /\ unew.owner # uself.owner
    /\ unew.sync_seq > uself.sync_seq
    /\ uout.tag = "Err"

(* C7: a decode that met SyncWrongOwner goes on with the records that follow:  *)
(* it never returns the error while the sequence still holds a record.         *)
C7_WrongOwnerDoesNotStopDecode ==
    (pc = "idle" /\ result.tag = "SyncWrongOwner") => ~more

(* C8: a record that fails to decode (missing NetStat, missing update element, *)
(* fewer than COUNT slots) ends the decode with a decode error: the failing    *)
(* visit deletes no entity, leaves every other entity as the earlier records   *)
(* left it and touches no slot the record did not carry; the error is then     *)
(* returned with the world as it is, and nothing is applied after the return.  *)
C8_StructuralErrorEndsDecode ==
    [][ /\ (Visited /\ res'.tag = "DecodeError")
           => \A k \in NetIds :
                ids[k] # NoEntity
                => /\ ids'[k] = ids[k]
                   /\ ids[k] \in alive'
                   /\ (k # rec'.stat.id => Ent(k)' = Ent(k))
                   /\ \A i \in Slots :
                        i > Len(rec'.slots) => data'[ids[k]][i] = data[ids[k]][i]
        /\ (pc = "match" /\ res.tag = "DecodeError")
           => (pc' = "idle" /\ result' = DecodeError /\ UNCHANGED world)
        /\ pc = "idle" => UNCHANGED world
      ]_vars

(* a decode ended by a malformed record, with records left in the message and *)
(* an entity of an earlier record still there                                 *)
C8_Witness ==
    /\ pc = "idle"
    /\ result = DecodeError
    /\ aligned
    /\ more
    /\ \E k \in NetIds : ids[k] \in alive /\ stats[ids[k]].id = k

(* C9: a Remove record for a mapped NetId vacates the identity map entry and   *)
(* kills the entity; a well-formed Update record for a vacant NetId creates a  *)
(* handle never used before, maps the NetId to it, stores the record's NetStat *)
(* as sent and its slots, whatever the record's owner and sync_seq are.        *)
C9_RemoveFreesNetId ==
    [][ /\ (Visited /\ IsRemove(rec') /\ ids[rec'.stat.id] # NoEntity)
           => /\ ids'[rec'.stat.id] = NoEntity
              /\ ids[rec'.stat.id] \notin alive'
        /\ ( /\ Visited
             /\ IsUpdate(rec')
             /\ Len(rec'.slots) = COUNT
             /\ ids[rec'.stat.id] = NoEntity )
           => /\ ids'[rec'.stat.id] = nextEntity
              /\ nextEntity' = nextEntity + 1
              /\ ids'[rec'.stat.id] \notin alive
              /\ ids'[rec'.stat.id] \in alive'
              /\ stats'[ids'[rec'.stat.id]] = rec'.stat
              /\ \A i \in Slots :
                   /\ (rec'.slots[i] # None
                         => data'[ids'[rec'.stat.id]][i] = rec'.slots[i][1])
                   /\ (rec'.slots[i] = None
                         => data'[ids'[rec'.stat.id]][i] = NoComp)
              /\ res' = OkUnit
      ]_vars

(* the other NetId has held the first handle throughout, so the dead handle in *)
(* between was this NetId's entity: a Remove deleted it, and a record with the *)
(* lowest sync_seq has now created the NetId's entity anew                     *)
C9_Witness ==
    /\ pc = "match"
    /\ IsUpdate(rec)
    /\ res = OkUnit
    /\ Len(rec.slots) = COUNT
    /\ rec.stat.sync_seq = 0
    /\ ids[rec.stat.id] = nextEntity - 1
    /\ \A k \in NetIds \ {rec.stat.id} : ids[k] = 1 /\ 1 \in alive
    /\ \E h \in Handles : h > 1 /\ h < ids[rec.stat.id] /\ h \notin alive
    /\ stats[ids[rec.stat.id]] = rec.stat

(* C10: the visit of a record changes no entity but the one of the record's    *)
(* NetId, an entity leaves the identity map or dies only by a Remove record    *)
(* carrying its NetId, and no other step of a decode changes the world.        *)
C10_OnlyNamedEntityChanges ==
    [][ /\ Visited
           => \A k \in NetIds :
                /\ (k # rec'.stat.id => Ent(k)' = Ent(k))
                /\ (ids[k] # NoEntity /\ (ids'[k] # ids[k] \/ ids[k] \notin alive'))
                   => (IsRemove(rec') /\ rec'.stat.id = k)
        /\ ~Visited => UNCHANGED world
      ]_vars

(* a record was applied to one entity while another, with a component, lived *)
C10_Witness ==
    /\ pc = "match"
    /\ WellFormed(rec)
    /\ res = OkUnit
    /\ aligned
    /\ \E k \in NetIds \ {rec.stat.id} :
         /\ ids[k] \in alive
         /\ \E i \in Slots : data[ids[k]][i] # NoComp

(* C11: in every state a decode can reach, the identity map is one-to-one      *)
(* between NetIds and live entities: a mapped NetId names a live entity, no    *)
(* two NetIds name the same entity, and the entity carries a NetStat whose id  *)
(* is its key; so NetStat::update is always called with new.id = self.id and   *)
(* the NetStat lookup of the decoder never fails.                              *)
C11_IdentityMapOneToOne ==
    /\ \A k \in NetIds :
         ids[k] # NoEntity
         => /\ ids[k] \in alive
            /\ stats[ids[k]] # NoStat
            /\ stats[ids[k]].id = k
    /\ \A k1, k2 \in NetIds :
         (ids[k1] # NoEntity /\ ids[k1] = ids[k2]) => k1 = k2
    /\ \A e \in Handles : e \notin alive => stats[e] = NoStat
    /\ res.tag # "Panic"
    /\ result.tag # "Panic"

(* both NetIds are mapped after an entity was removed, and the NetStat of an   *)
(* entity an earlier record created was looked up and updated                  *)
C11_Witness ==
    /\ pc = "match"
    /\ IsUpdate(rec)
    /\ res = OkUnit
    /\ \A k \in NetIds : ids[k] # NoEntity
    /\ \E h \in Handles : h < nextEntity /\ h \notin alive
    /\ ids[rec.stat.id] # nextEntity - 1
    /\ rec.stat.sync_seq > 0
    /\ stats[ids[rec.stat.id]] = rec.stat

(* the world as a peer sees it: per NetId, whether an entity is there, its      *)
(* NetStat and its components                                                  *)
ByNetId(w) ==
    [k \in NetIds |->
       IF w.ids[k] = NoEntity THEN <<>>
       ELSE <<w.ids[k] \in w.alive, w.stats[w.ids[k]], w.data[w.ids[k]]>>]

(* C12: a message of complete Update records that decoded without error, when  *)
(* decoded a second time, leaves the same entities by NetId, components and    *)
(* NetStats as the first decode left, and the second decode returns no error.  *)
C12_DuplicateDeliveryHarmless ==
    (pc = "idle" /\ runs = 2 /\ snap.r = OkUnit)
    => /\ result = OkUnit
       /\ ByNetId(World) = ByNetId(snap.w)

(* C13: the decode of a resource block whose sequence value is not greater     *)
(* than the shared SyncSeq applies none of its slots: every resource and the   *)
(* shared SyncSeq keep their values; a block with a greater value becomes the  *)
(* shared SyncSeq, each Some(v) slot replaces its resource by v and each None  *)
(* slot leaves its resource as it was.                                         *)
C13_ResourcesGatedAsGroup ==
    [][ /\ rblock'.seq <= resSeq
           => (rblock' # NoBlock => (resources' = resources /\ resSeq' = resSeq))
        /\ rblock'.seq > resSeq
           => /\ resSeq' = rblock'.seq
              /\ \A i \in RSlots :
                   /\ (rblock'.slots[i] # None => resources'[i] = rblock'.slots[i][1])
                   /\ (rblock'.slots[i] = None => resources'[i] = resources[i])
      ]_vars

(* a block with an older sequence value carried a new value for a resource and *)
(* was not applied, after an earlier block had set one resource and left the   *)
(* other uninitialised                                                         *)
C13_Witness ==
    /\ rblock # NoBlock
    /\ rblock.seq < resSeq
    /\ \E i \in RSlots :
         /\ rblock.slots[i] # None
         /\ resources[i] # NoComp
         /\ resources[i] # rblock.slots[i][1]
    /\ \E i \in RSlots : resources[i] = NoComp

C15_BrokenEntityIsReturned ==
    [][ /\ ( /\ Visited
             /\ IsUpdate(rec')
             /\ ids[rec'.stat.id] # NoEntity
             /\ stats[ids[rec'.stat.id]] = NoStat )
           => res' = BrokenEntity(ids[rec'.stat.id])
        /\ (pc = "match" /\ res.tag = "BrokenEntity")
           => (pc' = "idle" /\ result' = res)
      ]_vars

(* C16: after any sequence of start, stop, restart and reset calls under a     *)
(* non-decreasing clock, Stopwatch::elapsed() is the clock time the stopwatch  *)
(* spent Started since new() or the last reset()/restart(): cycles add up, it  *)
(* is 0 in Waiting, and it does not change while the stopwatch stays Ended.    *)
C16_ElapsedIsTimeStarted ==
    [][ /\ elapsed(watch', now') = spent'
        /\ watch'.state = "Waiting" => elapsed(watch', now') = 0
        /\ (watch.state = "Ended" /\ watch'.state = "Ended")
           => elapsed(watch', now') = elapsed(watch, now)
      ]_vars

(* a second start/stop cycle ended, each cycle having measured time, and the   *)
(* clock went on after the stop                                                *)
C16_Witness ==
    /\ watch.state = "Ended"
    /\ called = "stop"
    /\ elapsed(watch, now) = 2
    /\ spent = 2
    /\ now >= 4

(* C17: start() on a Started stopwatch leaves its accumulated duration and its *)
(* start instant as they are; stop() on a Waiting or an Ended stopwatch leaves *)
(* its state as it is.                                                         *)
C17_StartStopNoOps ==
    [][ /\ (called' = "start" /\ now' = now /\ watch.state = "Started")
           => watch' = watch
        /\ (called' = "stop" /\ now' = now /\ watch.state \in {"Waiting", "Ended"})
           => watch' = watch
      ]_vars

(* start() was called on a stopwatch running since an earlier instant, with    *)
(* time from an earlier cycle                                                  *)
C17_Witness ==
    /\ called = "start"
    /\ watch.state = "Started"
    /\ watch.dur > 0
    /\ watch.at < now
    /\ elapsed(watch, now) > watch.dur

(* C18: reset() from any state gives Waiting with elapsed() = 0; restart()     *)
(* from any state gives Started with accumulated duration 0 and the current    *)
(* instant, so elapsed() counts again from 0 and never includes earlier time.  *)
C18_ResetRestartForget ==
    [][ /\ (called' = "reset" /\ now' = now)
           => (watch'.state = "Waiting" /\ elapsed(watch', now') = 0)
        /\ (called' = "restart" /\ now' = now)
           => /\ watch'.state = "Started"
              /\ watch'.dur = 0
              /\ elapsed(watch', now') = 0
        /\ called' \in {"reset", "restart"}
           => \A t \in now'..MaxClock : elapsed(watch', t) <= t - (now' - spent')
      ]_vars

(* restart() was called on a stopwatch that had measured time, and the clock   *)
(* went on since                                                               *)
C18_Witness ==
    /\ called = "restart"
    /\ watch.state = "Started"
    /\ watch.dur = 0
    /\ watch.at > 1
    /\ now > watch.at
    /\ elapsed(watch, now) = now - watch.at

(* C19: the visit of a complete Update record that is stale for its entity     *)
(* (recorded owner, sync_seq not greater than the recorded one) leaves the     *)
(* stream position on the record boundary, and whenever the loop head has a    *)
(* following record the decode visits it, as it would without the stale one.   *)
C19_StaleRecordIsSkipped ==
    [][ /\ ( /\ Visited
             /\ IsUpdate(rec')
             /\ Len(rec'.slots) = COUNT
             /\ ids[rec'.stat.id] # NoEntity
             /\ rec'.stat.owner = stats[ids[rec'.stat.id]].owner
             /\ rec'.stat.sync_seq <= stats[ids[rec'.stat.id]].sync_seq )
           => aligned' = aligned
        /\ (pc = "next" /\ more) => Visited
      ]_vars

(* C20: while an entity lives, the sync_seq of its NetStat never decreases, and *)
(* it changes only in the visit of an Update record that names the entity,     *)
(* comes from its recorded owner and carries a strictly greater sync_seq; it   *)
(* is then exactly the record's sync_seq.                                      *)
C20_SyncSeqOnlyAdvances ==
    [][ \A e \in Handles :
          (e \in alive /\ e \in alive' /\ stats[e] # NoStat)
          => /\ stats'[e].sync_seq >= stats[e].sync_seq
             /\ stats'[e].sync_seq # stats[e].sync_seq
                => /\ Visited
                   /\ IsUpdate(rec')
                   /\ ids[rec'.stat.id] = e
                   /\ rec'.stat.owner = stats[e].owner
                   /\ rec'.stat.sync_seq > stats[e].sync_seq
                   /\ stats'[e].sync_seq = rec'.stat.sync_seq
      ]_vars

(* the first entity, created with another one alive beside it, took a record   *)
(* of its owner with the highest sync_seq, all slots read                      *)
C20_Witness ==
    /\ pc = "match"
    /\ IsUpdate(rec)
    /\ res = OkUnit
    /\ aligned
    /\ COUNT > 0
    /\ Len(rec.slots) = COUNT
    /\ ids[rec.stat.id] = 1
    /\ nextEntity > 2
    /\ rec.stat.sync_seq = MaxSeq
    /\ stats[1] = rec.stat
    /\ \E k \in NetIds \ {rec.stat.id} :
         ids[k] \in alive /\ stats[ids[k]].sync_seq < MaxSeq

(* C21: while an entity lives, the id and the owner of its NetStat stay what   *)
(* they were at its creation, whatever records are decoded: from its owner or  *)
(* from another peer, Update or Remove, with any sync_seq.                     *)
C21_IdAndOwnerNeverChange ==
    [][ \A e \in Handles :
          (e \in alive /\ e \in alive' /\ stats[e] # NoStat)
          => /\ stats'[e].id = stats[e].id
             /\ stats'[e].owner = stats[e].owner
      ]_vars

(* an Update from another peer with the highest sync_seq met an entity with a  *)
(* lower one, another entity alive beside it, and the owner is still the old   *)
C21_Witness ==
    /\ pc = "match"
    /\ IsUpdate(rec)
    /\ res.tag = "SyncWrongOwner"
    /\ rec.stat.sync_seq = MaxSeq
    /\ ids[rec.stat.id] \in alive
    /\ stats[ids[rec.stat.id]].id = rec.stat.id
    /\ stats[ids[rec.stat.id]].owner = res.owner
    /\ stats[ids[rec.stat.id]].owner # rec.stat.owner
    /\ stats[ids[rec.stat.id]].sync_seq < MaxSeq
    /\ \E k \in NetIds \ {rec.stat.id} : ids[k] \in alive

(* C22: the visit of an Update record whose NetId is vacant in the identity    *)
(* map creates exactly one entity, maps the NetId (and no other) to it, gives  *)
(* it the record's NetStat with owner and sync_seq as sent, whatever they are, *)
(* and stores every slot the record carries; a complete record yields Ok(()).  *)
C22_FirstSeenUpdateCreates ==
    [][ ( /\ Visited
          /\ IsUpdate(rec')
          /\ ids[rec'.stat.id] = NoEntity )
        => /\ alive' = alive \cup {nextEntity}
           /\ nextEntity \notin alive
           /\ ids' = [ids EXCEPT ![rec'.stat.id] = nextEntity]
           /\ stats' = [stats EXCEPT ![nextEntity] = rec'.stat]
           /\ \A e \in Handles \ {nextEntity} : data'[e] = data[e]
           /\ \A i \in Slots :
                i <= Len(rec'.slots)
                => /\ (rec'.slots[i] # None
                         => data'[nextEntity][i] = rec'.slots[i][1])
                   /\ (rec'.slots[i] = None => data'[nextEntity][i] = NoComp)
           /\ Len(rec'.slots) = COUNT => res' = OkUnit
      ]_vars

(* a record with sync_seq 0, sent by a peer other than the one its NetId       *)
(* names, created an entity with a component beside an older entity whose      *)
(* sync_seq is higher                                                          *)
C22_Witness ==
    /\ pc = "match"
    /\ IsUpdate(rec)
    /\ res = OkUnit
    /\ Len(rec.slots) = COUNT
    /\ rec.stat.sync_seq = 0
    /\ rec.stat.owner # rec.stat.id
    /\ ids[rec.stat.id] = nextEntity - 1
    /\ \A h \in Handles : h < nextEntity => h \in alive
    /\ stats[ids[rec.stat.id]] = rec.stat
    /\ \E i \in Slots : data[ids[rec.stat.id]][i] # NoComp
    /\ \E k \in NetIds \ {rec.stat.id} :
         ids[k] \in alive /\ stats[ids[k]].sync_seq > 0

(* C23: an Update record leaves its sync_seq in the NetStat of its entity only *)
(* together with all COUNT slots of the record: whenever a visit stores the    *)
(* record's sync_seq (by creating the entity or by advancing the recorded      *)
(* one), the record is complete, every slot is stored and the visit yields     *)
(* Ok(()); so a record that failed to decode is not stale when sent again.     *)
C23_SeqAdvancesOnlyWithAllSlots ==
    [][ ( /\ Visited
          /\ IsUpdate(rec')
          /\ ids'[rec'.stat.id] # NoEntity
          /\ stats'[ids'[rec'.stat.id]].sync_seq = rec'.stat.sync_seq
          /\ \/ ids[rec'.stat.id] = NoEntity
             \/ stats[ids[rec'.stat.id]].sync_seq # rec'.stat.sync_seq )
        => /\ Len(rec'.slots) = COUNT
           /\ \A i \in 1..Len(rec'.slots) :
                /\ (rec'.slots[i] # None
                      => data'[ids'[rec'.stat.id]][i] = rec'.slots[i][1])
                /\ (rec'.slots[i] = None
                      => data'[ids'[rec'.stat.id]][i] = NoComp)
           /\ res' = OkUnit
      ]_vars

(* C24: the visit of a Remove record whose NetId is vacant in the identity map *)
(* creates nothing, maps nothing, changes no entity, component or NetStat,     *)
(* and yields Ok(()), so the decode goes on.                                   *)
C24_RemoveOfUnknownIsNoOp ==
    [][ ( /\ Visited
          /\ IsRemove(rec')
          /\ ids[rec'.stat.id] = NoEntity )
        => /\ UNCHANGED world
           /\ res' = OkUnit
           /\ aligned' = aligned
      ]_vars

(* no entity was ever deleted, so the NetId of the Remove record was vacant    *)
(* when it was visited; the entity of the other NetId lives with a component   *)
C24_Witness ==
    /\ pc = "match"
    /\ IsRemove(rec)
    /\ res = OkUnit
    /\ aligned
    /\ ids[rec.stat.id] = NoEntity
    /\ nextEntity > 1
    /\ \A h \in Handles : h < nextEntity => h \in alive
    /\ \E k \in NetIds \ {rec.stat.id} :
         /\ ids[k] \in alive
         /\ \E i \in Slots : data[ids[k]][i] # NoComp

(* C25: a run of the DjSystem that finds the AudioSink not empty does not call *)
(* the picker and appends nothing; a run that finds it empty calls the picker  *)
(* exactly once and appends at most one source, and only the source of a       *)
(* handle the picker returned and the asset storage resolves.                  *)
C25_PickerOnlyWhenSinkEmpty ==
    [][ djruns' = djruns + 1
        => /\ sink # <<>>
              => (picks' = picks /\ sink' = sink /\ picked' = NotCalled)
           /\ sink = <<>>
              => /\ picks' = picks + 1
                 /\ picked' # NotCalled
                 /\ Len(sink') <= 1
                 /\ sink' # <<>>
                    => /\ picked' # None
                       /\ picked'[1] \in storage
                       /\ sink' = <<picked'[1]>>
      ]_vars

(* the last run found a source still queued that an earlier run had appended,  *)
(* and did not call the picker                                                 *)
C25_Witness ==
    /\ djruns > picks
    /\ picks >= 1
    /\ picked = NotCalled
    /\ sink # <<>>
    /\ sink[1] \in storage

====
